---- MODULE Spec2Model ----
(***************************************************************************)
(* Model of the Kalshi arbitrage trader of src/arbitrage.py: compute_sum,  *)
(* orderable, check_event and the polling loop of main.  One step of the   *)
(* model is one statement group of check_event; the collaborators          *)
(* (requests.get, api.get_balance, bet.place_bet) are the environment.     *)
(***************************************************************************)
EXTENDS Integers, Sequences, FiniteSets, TLC

(* ------------------------------ bounds --------------------------------- *)

\* Largest number of markets the market-data service returns for an event.
MaxMarkets == 3

\* Largest margin explored by the threshold specification SpecTriggers.
MaxMargin == 100

(* ------------------------- program constants --------------------------- *)

\* Fair value of a full set, in cents (the literal 100 of check_event).
FullSet == 100

\* Smallest HTTP status code that place_bet's caller treats as a failure.
ErrorStatus == 400

(* --------------------------- input domains ----------------------------- *)

\* Profit margins entered by the operator in the polling specification.
MarginSet == {1, 4}

\* Minimum balances entered by the operator.
MinBalanceSet == {0, 50}

\* Balances the balance service holds at the start of a cycle.
BalanceSet == {100, 101, 301}

\* The configured event tickers, in the order they were entered.
all_events == <<"EVA", "EVB">>

\* Quote records a market of the market-data response can carry: three
\* ordinary quotes, a long shot (yes ask 1, yes bid 0, no ask 100), a near
\* certainty (yes ask 100, no ask 1, no bid 0), a crossed quote (bids above
\* asks, which check_event does not exclude) and a market that is not active.
MarketKinds ==
  { [status |-> "active", yes_ask |-> 32,  yes_bid |-> 30, no_ask |-> 70,  no_bid |-> 68],
    [status |-> "active", yes_ask |-> 33,  yes_bid |-> 31, no_ask |-> 69,  no_bid |-> 68],
    [status |-> "active", yes_ask |-> 62,  yes_bid |-> 60, no_ask |-> 40,  no_bid |-> 38],
    [status |-> "active", yes_ask |-> 1,   yes_bid |-> 0,  no_ask |-> 100, no_bid |-> 99],
    [status |-> "active", yes_ask |-> 100, yes_bid |-> 99, no_ask |-> 1,   no_bid |-> 0],
    [status |-> "active", yes_ask |-> 20,  yes_bid |-> 80, no_ask |-> 20,  no_bid |-> 80],
    [status |-> "closed", yes_ask |-> 32,  yes_bid |-> 30, no_ask |-> 70,  no_bid |-> 68] }

\* Shapes of the JSON body of the market-data response: an object with the
\* markets list, an object without it, a bare JSON string without it.
PayloadKinds == {"markets", "object_no_markets", "string_no_markets"}

\* Results of bet.place_bet: no result, or a response with a status code.
NoResponse == [none |-> TRUE, status_code |-> 0]
Responses ==
  { NoResponse,
    [none |-> FALSE, status_code |-> 201],
    [none |-> FALSE, status_code |-> 400],
    [none |-> FALSE, status_code |-> 500] }

Sides == {"yes", "no"}
Actions == {"buy", "sell"}

VARIABLES
  min_balance,   \* main: configured minimum balance (cents)
  margin,        \* main: configured profit margin (cents)
  evIdx,         \* main: index in all_events of the event being checked
  pc,            \* position in check_event / main
  balance,       \* what api.get_balance() returns now
  payload,       \* kind of markets_data of this cycle
  markets,       \* markets_data['markets'] of this cycle
  sums,          \* sum_yes_buy, sum_yes_sell, sum_no_buy, sum_no_sell
  trig,          \* half_floor, half_ceil and the four trigger prices
  bet_attempted, \* check_event's local flag
  sweep,         \* the sweep being executed: action, side
  leg,           \* index of the market the sweep loop is at
  orders,        \* orders handed to place_bet in this cycle, in order
  results,       \* results of place_bet observed in this cycle, in order
  fired,         \* sweeps entered in this cycle, each with the index of its
                 \* first order and the balance its guard read
  aborted,       \* a leg failed in this cycle
  reports,       \* "NO BET ATTEMPTED" lines printed in this cycle
  anomalies      \* entries appended to trade_log.txt in this cycle

vars == <<min_balance, margin, evIdx, pc, balance, payload, markets, sums, trig,
          bet_attempted, sweep, leg, orders, results, fired, aborted, reports,
          anomalies>>

(* ------------------------------ helpers -------------------------------- *)

\* market[f"{side}_{ask_or_bid}"]
Quote(market, side, ask_or_bid) ==
  CASE side = "yes" /\ ask_or_bid = "ask" -> market.yes_ask
    [] side = "yes" /\ ask_or_bid = "bid" -> market.yes_bid
    [] side = "no"  /\ ask_or_bid = "ask" -> market.no_ask
    [] side = "no"  /\ ask_or_bid = "bid" -> market.no_bid

\* The field a sweep trades on: the ask for a buy, the bid for a sell.
FieldOf(action) == IF action = "buy" THEN "ask" ELSE "bid"

RECURSIVE SumUpTo(_, _, _, _)
SumUpTo(ms, side, ask_or_bid, k) ==
  IF k = 0 THEN 0
  ELSE SumUpTo(ms, side, ask_or_bid, k - 1) + Quote(ms[k], side, ask_or_bid)

\* Mutation of compute_sum: total is overwritten by each market's field
\* instead of being added to.
compute_sum_overwrites(ms, side, ask_or_bid) ==
  IF Len(ms) = 0 THEN 0 ELSE Quote(ms[Len(ms)], side, ask_or_bid)

\* compute_sum: total starts at 0 and adds the field of each market in turn.
compute_sum(ms, side, ask_or_bid) == SumUpTo(ms, side, ask_or_bid, Len(ms))

\* Mutations of InsufficientBalance: a balance equal to the floor passes;
\* the full-set cost is left out of the floor; the test is applied to
\* every action.
InsufficientBalanceOffByOne(ms, side, action, minb, bal) ==
  /\ action = "buy"
  /\ IF side = "yes" /\ bal < FullSet + minb
       THEN TRUE
       ELSE side = "no" /\ bal < (Len(ms) - 1) * FullSet + minb
InsufficientBalanceNoSetCost(ms, side, action, minb, bal) ==
  /\ action = "buy"
  /\ IF side = "yes" /\ bal <= minb
       THEN TRUE
       ELSE side = "no" /\ bal <= minb
InsufficientBalanceAnyAction(ms, side, action, minb, bal) ==
  IF side = "yes" /\ bal <= FullSet + minb
    THEN TRUE
    ELSE side = "no" /\ bal <= (Len(ms) - 1) * FullSet + minb

\* The balance test of orderable for one market (buy only).
InsufficientBalance(ms, side, action, minb, bal) ==
  /\ action = "buy"
  /\ IF side = "yes" /\ bal <= FullSet + minb
       THEN TRUE
       ELSE side = "no" /\ bal <= (Len(ms) - 1) * FullSet + minb

\* Mutation of NoTradableQuote: a price of 0 is let through.
NoTradableQuoteZeroPasses(market, side, action) ==
  IF action = "buy"
    THEN Quote(market, side, "ask") < 0 \/ Quote(market, side, "ask") = FullSet
    ELSE IF action = "sell"
      THEN Quote(market, side, "bid") < 0 \/ Quote(market, side, "bid") = FullSet
      ELSE TRUE

\* The price test of orderable for one market; an action that is neither
\* buy nor sell takes the else branch and fails.
NoTradableQuote(market, side, action) ==
  IF action = "buy"
    THEN Quote(market, side, "ask") <= 0 \/ Quote(market, side, "ask") = FullSet
    ELSE IF action = "sell"
      THEN Quote(market, side, "bid") <= 0 \/ Quote(market, side, "bid") = FullSet
      ELSE TRUE

\* Mutation of MarketNotActive: the status test inverted.
MarketNotActiveInverted(market) == market.status = "active"

\* The status test of orderable for one market.
MarketNotActive(market) == market.status # "active"

\* The loop of orderable from market k on: the first failing test of the
\* first failing market returns False.
RECURSIVE OrderableFrom(_, _, _, _, _, _)
OrderableFrom(ms, side, action, minb, bal, k) ==
  IF k > Len(ms) THEN TRUE
  ELSE IF MarketNotActive(ms[k]) THEN FALSE
  ELSE IF InsufficientBalance(ms, side, action, minb, bal) THEN FALSE
  ELSE IF NoTradableQuote(ms[k], side, action) THEN FALSE
  ELSE OrderableFrom(ms, side, action, minb, bal, k + 1)

\* orderable(markets, side, action, min_balance), with the balance that
\* api.get_balance() returns passed as bal.
orderable(ms, side, action, minb, bal) == OrderableFrom(ms, side, action, minb, bal, 1)

half_floor(m) == m \div 2
half_ceil(m) == m - half_floor(m)

\* Mutation of yes_ask_price: the margin is left out of the buy trigger.
yes_ask_price_without_margin(m) == FullSet

yes_ask_price(m) == FullSet - half_floor(m)
yes_bid_price(m) == FullSet + half_ceil(m)

\* Mutation of no_ask_price: the half margin is not scaled by n - 1.
no_ask_price_unscaled(m, n) == FullSet * (n - 1) - half_floor(m)

no_ask_price(m, n) == FullSet * (n - 1) - half_floor(m) * (n - 1)
no_bid_price(m, n) == FullSet * (n - 1) + half_ceil(m) * (n - 1)

\* The locals computed by lines 97-106 of check_event.
Triggers(m, n) ==
  [ half_floor |-> half_floor(m), half_ceil |-> half_ceil(m),
    yes_ask |-> yes_ask_price(m), yes_bid |-> yes_bid_price(m),
    no_ask |-> no_ask_price(m, n), no_bid |-> no_bid_price(m, n) ]

\* The four sums computed by lines 91-94 of check_event.
Sums(ms) ==
  [ yes_buy |-> compute_sum(ms, "yes", "ask"), yes_sell |-> compute_sum(ms, "yes", "bid"),
    no_buy |-> compute_sum(ms, "no", "ask"),   no_sell |-> compute_sum(ms, "no", "bid") ]

NoSums == [yes_buy |-> 0, yes_sell |-> 0, no_buy |-> 0, no_sell |-> 0]
NoTrig == [half_floor |-> 0, half_ceil |-> 0, yes_ask |-> 0, yes_bid |-> 0,
           no_ask |-> 0, no_bid |-> 0]
NoSweep == [action |-> "none", side |-> "none"]

\* The market records of a response: the quote records with their tickers.
MarketList(ev, kinds) ==
  [i \in 1..Len(kinds) |->
     [ticker |-> <<ev, i>>, status |-> kinds[i].status,
      yes_ask |-> kinds[i].yes_ask, yes_bid |-> kinds[i].yes_bid,
      no_ask |-> kinds[i].no_ask, no_bid |-> kinds[i].no_bid]]

KindLists == UNION {[1..n -> MarketKinds] : n \in 0..MaxMarkets}

\* Mutation of LegFailed: the status code is not looked at.
LegFailedIgnoresStatus(r) == r.none

\* response is None or response.status_code >= 400
LegFailed(r) == r.none \/ r.status_code >= ErrorStatus

\* The condition of each of the four if/elif tests of check_event.
TriggerHolds(action, side, s, t) ==
  CASE action = "buy"  /\ side = "yes" -> s.yes_buy <= t.yes_ask
    [] action = "sell" /\ side = "yes" -> s.yes_sell >= t.yes_bid
    [] action = "buy"  /\ side = "no"  -> s.no_buy <= t.no_ask
    [] action = "sell" /\ side = "no"  -> s.no_sell >= t.no_bid

\* The test position of each sweep, and where control goes when the test
\* is false.
TestOf(action, side) ==
  CASE action = "buy"  /\ side = "yes" -> "yes_buy"
    [] action = "sell" /\ side = "yes" -> "yes_sell"
    [] action = "buy"  /\ side = "no"  -> "no_buy"
    [] action = "sell" /\ side = "no"  -> "no_sell"

ElseOf(action, side) ==
  CASE action = "buy"  /\ side = "yes" -> "yes_sell"
    [] action = "sell" /\ side = "yes" -> "no_buy"
    [] action = "buy"  /\ side = "no"  -> "no_sell"
    [] action = "sell" /\ side = "no"  -> "report"

\* Mutations of AfterSweep: the no-side block chained to the yes-side one
\* by elif, and the elif branches written as independent ifs.
AfterSweepSkipsNoSide(sw) == "report"
AfterSweepFallsThrough(sw) ==
  IF sw.action = "buy" THEN ElseOf(sw.action, sw.side)
  ELSE IF sw.side = "yes" THEN "no_buy" ELSE "report"

\* Where control goes when a sweep's loop ends: a branch of the yes-side
\* if/elif is followed by the no-side if, a branch of the no-side if/elif
\* by the final report.
AfterSweep(sw) == IF sw.side = "yes" THEN "no_buy" ELSE "report"

\* Mutation of InOpenInterval: a price of 1 is ordered.
InOpenIntervalFromOne(price) == 1 <= price /\ price < FullSet

\* 1 < price < 100
InOpenInterval(price) == 1 < price /\ price < FullSet

\* Balance after the order service accepted an order: a taker fill at the
\* limit price debits a buy and credits a sell.
Settle(bal, action, price) == IF action = "buy" THEN bal - price ELSE bal + price

(* ------------------------------- Init ---------------------------------- *)

\* The cycle-scoped locals and histories at the start of a check_event call.
CycleReset ==
  /\ payload = "none"
  /\ markets = <<>>
  /\ sums = NoSums
  /\ trig = NoTrig
  /\ bet_attempted = FALSE
  /\ sweep = NoSweep
  /\ leg = 0
  /\ orders = <<>>
  /\ results = <<>>
  /\ fired = <<>>
  /\ aborted = FALSE
  /\ reports = 0
  /\ anomalies = 0

\* main after the configuration was read and "start" was entered.
Init ==
  /\ min_balance \in MinBalanceSet
  /\ margin \in MarginSet
  /\ evIdx = 1
  /\ pc = "fetch"
  /\ balance \in BalanceSet
  /\ CycleReset

(* ------------------------------ actions -------------------------------- *)

\* Between two cycles the account is open to other activity (deposits,
\* withdrawals, settlements): when the next cycle starts the balance
\* service holds any amount of BalanceSet.
AccountActivity ==
  /\ pc = "idle"
  /\ balance' \in BalanceSet
  /\ pc' = "fetch"
  /\ UNCHANGED <<min_balance, margin, evIdx, payload, markets, sums, trig,
                 bet_attempted, sweep, leg, orders, results, fired, aborted,
                 reports, anomalies>>

\* check_event, lines 71-78: the market data of the event is fetched.
FetchMarkets ==
  /\ pc = "fetch"
  /\ \E kind \in PayloadKinds, kinds \in KindLists :
       /\ kind # "markets" => kinds = <<>>
       /\ payload' = kind
       /\ markets' = MarketList(all_events[evIdx], kinds)
  /\ pc' = "check"
  /\ UNCHANGED <<min_balance, margin, evIdx, balance, sums, trig, bet_attempted,
                 sweep, leg, orders, results, fired, aborted, reports, anomalies>>

\* check_event, lines 80-86: the safety check.  For a JSON string the
\* message is built, printed and logged and check_event returns; for a
\* JSON object "Bad market response: " + markets_data raises TypeError
\* before anything is printed or logged, and nothing catches it.
SafetyCheck ==
  /\ pc = "check"
  /\ pc' = CASE payload = "markets" -> "compute"
             [] payload = "string_no_markets" -> "next_event"
             [] payload = "object_no_markets" -> "crashed"
  /\ anomalies' = IF payload = "string_no_markets" THEN anomalies + 1 ELSE anomalies
  /\ UNCHANGED <<min_balance, margin, evIdx, balance, payload, markets, sums, trig,
                 bet_attempted, sweep, leg, orders, results, fired, aborted, reports>>

\* check_event, lines 88-109: the sums, the trigger prices, bet_attempted.
ComputeTriggers ==
  /\ pc = "compute"
  /\ sums' = Sums(markets)
  /\ trig' = Triggers(margin, Len(markets))
  /\ bet_attempted' = FALSE
  /\ pc' = "yes_buy"
  /\ UNCHANGED <<min_balance, margin, evIdx, balance, payload, markets, sweep, leg,
                 orders, results, fired, aborted, reports, anomalies>>

\* One if/elif test of check_event (lines 112, 122, 133, 144): the trigger
\* comparison, then orderable, which reads the balance; when both hold the
\* sweep's loop is entered.
Test(action, side) ==
  /\ pc = TestOf(action, side)
  /\ IF /\ TriggerHolds(action, side, sums, trig)
        /\ orderable(markets, side, action, min_balance, balance)
       THEN /\ sweep' = [action |-> action, side |-> side]
            /\ leg' = 1
            /\ fired' = Append(fired, [action |-> action, side |-> side,
                                       first |-> Len(orders) + 1,
                                       balance |-> balance])
            /\ pc' = "loop"
       ELSE /\ pc' = ElseOf(action, side)
            /\ UNCHANGED <<sweep, leg, fired>>
  /\ UNCHANGED <<min_balance, margin, evIdx, balance, payload, markets, sums, trig,
                 bet_attempted, orders, results, aborted, reports, anomalies>>

BuyYes == Test("buy", "yes")
SellYes == Test("sell", "yes")
BuyNo == Test("buy", "no")
SellNo == Test("sell", "no")

\* Mutation of LegPrice: every sweep reads the ask.
LegPriceAlwaysAsk == Quote(markets[leg], sweep.side, "ask")

\* The price the sweep reads for the market its loop is at.
LegPrice == Quote(markets[leg], sweep.side, FieldOf(sweep.action))

\* A sweep's loop at a market whose price is outside (1, 100): no order.
SkipLeg ==
  /\ pc = "loop"
  /\ leg <= Len(markets)
  /\ ~InOpenInterval(LegPrice)
  /\ leg' = leg + 1
  /\ UNCHANGED <<min_balance, margin, evIdx, pc, balance, payload, markets, sums,
                 trig, bet_attempted, sweep, orders, results, fired, aborted,
                 reports, anomalies>>

\* A sweep's loop at a market whose price is inside (1, 100): the call of
\* bet.place_bet(market["ticker"], action, side, price).
PlaceBet ==
  /\ pc = "loop"
  /\ leg <= Len(markets)
  /\ InOpenInterval(LegPrice)
  /\ orders' = Append(orders, [ticker |-> markets[leg].ticker, action |-> sweep.action,
                               side |-> sweep.side, price |-> LegPrice])
  /\ pc' = "await"
  /\ UNCHANGED <<min_balance, margin, evIdx, balance, payload, markets, sums, trig,
                 bet_attempted, sweep, leg, results, fired, aborted, reports,
                 anomalies>>

\* bet.place_bet returns: a failed leg returns from check_event, an
\* accepted one sets bet_attempted and the loop goes on.
ObserveResult ==
  /\ pc = "await"
  /\ \E r \in Responses :
       /\ results' = Append(results, r)
       /\ IF LegFailed(r)
            THEN /\ aborted' = TRUE
                 /\ pc' = "next_event"
                 /\ UNCHANGED <<bet_attempted, leg, balance>>
            ELSE /\ bet_attempted' = TRUE
                 /\ leg' = leg + 1
                 /\ balance' = Settle(balance, sweep.action, LegPrice)
                 /\ pc' = "loop"
                 /\ UNCHANGED aborted
  /\ UNCHANGED <<min_balance, margin, evIdx, payload, markets, sums, trig, sweep,
                 orders, fired, reports, anomalies>>

\* A sweep's loop has gone through every market.
SweepEnds ==
  /\ pc = "loop"
  /\ leg > Len(markets)
  /\ pc' = AfterSweep(sweep)
  /\ sweep' = NoSweep
  /\ leg' = 0
  /\ UNCHANGED <<min_balance, margin, evIdx, balance, payload, markets, sums, trig,
                 bet_attempted, orders, results, fired, aborted, reports, anomalies>>

\* Mutations of Report: the test of bet_attempted inverted, and left out.
ReportInverted ==
  /\ pc = "report"
  /\ reports' = IF bet_attempted THEN reports + 1 ELSE reports
  /\ pc' = "next_event"
  /\ UNCHANGED <<min_balance, margin, evIdx, balance, payload, markets, sums, trig,
                 bet_attempted, sweep, leg, orders, results, fired, aborted, anomalies>>
ReportUnconditional ==
  /\ pc = "report"
  /\ reports' = reports + 1
  /\ pc' = "next_event"
  /\ UNCHANGED <<min_balance, margin, evIdx, balance, payload, markets, sums, trig,
                 bet_attempted, sweep, leg, orders, results, fired, aborted, anomalies>>

\* check_event, lines 154-155.
Report ==
  /\ pc = "report"
  /\ reports' = IF ~bet_attempted THEN reports + 1 ELSE reports
  /\ pc' = "next_event"
  /\ UNCHANGED <<min_balance, margin, evIdx, balance, payload, markets, sums, trig,
                 bet_attempted, sweep, leg, orders, results, fired, aborted, anomalies>>

\* main, lines 170-172: check_event has returned; the for loop takes the
\* next event, the while loop starts the list again after the last one.
NextEvent ==
  /\ pc = "next_event"
  /\ evIdx' = (evIdx % Len(all_events)) + 1
  /\ pc' = "idle"
  /\ payload' = "none"
  /\ markets' = <<>>
  /\ sums' = NoSums
  /\ trig' = NoTrig
  /\ bet_attempted' = FALSE
  /\ sweep' = NoSweep
  /\ leg' = 0
  /\ orders' = <<>>
  /\ results' = <<>>
  /\ fired' = <<>>
  /\ aborted' = FALSE
  /\ reports' = 0
  /\ anomalies' = 0
  /\ UNCHANGED <<min_balance, margin, balance>>

Next ==
  \/ AccountActivity
  \/ FetchMarkets
  \/ SafetyCheck
  \/ ComputeTriggers
  \/ BuyYes
  \/ SellYes
  \/ BuyNo
  \/ SellNo
  \/ SkipLeg
  \/ PlaceBet
  \/ ObserveResult
  \/ SweepEnds
  \/ Report
  \/ NextEvent

Spec == Init /\ [][Next]_vars

(* ------------------- specification of the thresholds ------------------- *)

\* check_event about to compute its thresholds, for every margin up to
\* MaxMargin and every market list.
InitTriggers ==
  /\ min_balance \in MinBalanceSet
  /\ margin \in 0..MaxMargin
  /\ evIdx = 1
  /\ pc = "compute"
  /\ balance = 301
  /\ payload = "markets"
  /\ \E kinds \in KindLists : markets = MarketList(all_events[1], kinds)
  /\ sums = NoSums
  /\ trig = NoTrig
  /\ bet_attempted = FALSE
  /\ sweep = NoSweep
  /\ leg = 0
  /\ orders = <<>>
  /\ results = <<>>
  /\ fired = <<>>
  /\ aborted = FALSE
  /\ reports = 0
  /\ anomalies = 0

NextTriggers == ComputeTriggers

SpecTriggers == InitTriggers /\ [][NextTriggers]_vars

(* ----------------------- vocabulary of the claims ---------------------- *)

\* A result of place_bet that is a failed submission.
Failure(r) == r.none \/ r.status_code >= 400

\* The cycle has a well-formed response and its thresholds are computed.
Decided == payload = "markets" /\ pc \notin {"check", "compute"}

\* The cycle's check_event has run to its end or has returned early.
CycleOver == pc \in {"next_event", "crashed"}

\* The k-th sweep entered in this cycle has gone through all markets.
SweepCompleted(k) == k < Len(fired) \/ (sweep = NoSweep /\ ~aborted)

\* The orders submitted by the k-th sweep entered in this cycle.
SweepOrders(k) ==
  SubSeq(orders, fired[k].first,
         IF k < Len(fired) THEN fired[k + 1].first - 1 ELSE Len(orders))

\* Some sweep of the given side was entered in this cycle.
SideFired(side) == \E k \in DOMAIN fired : fired[k].side = side

\* The sweep of the given action and side was entered in this cycle.
SweepFired(action, side) ==
  \E k \in DOMAIN fired : fired[k].action = action /\ fired[k].side = side

\* The price a sweep of the given action and side trades at in market i.
TradedPrice(i, action, side) == Quote(markets[i], side, FieldOf(action))

\* Every market's traded price is strictly between 1 and 100.
AllTradable(action, side) ==
  \A i \in DOMAIN markets :
     1 < TradedPrice(i, action, side) /\ TradedPrice(i, action, side) < 100

\* Balances and minimum balances the guard is evaluated on in the claims.
GuardBalances == BalanceSet \cup {balance, 0, 1000}
GuardMinBalances == MinBalanceSet \cup {min_balance}

(* -------------------------------- C1 ----------------------------------- *)

\* C1: once a submission of a cycle has failed (no result, or a status code
\* of 400 or more), that result is the last one of the cycle and no order
\* follows the failed one: check_event has returned to the polling loop
\* with the remaining markets unordered and nothing compensating.
C1_NoOrderAfterFailedLeg ==
  \A k \in DOMAIN results :
     Failure(results[k]) =>
       /\ k = Len(results)
       /\ Len(orders) = k
       /\ pc = "next_event"

\* The second of three tradable legs failed: one accepted order, one failed
\* order, and the third market never ordered.
C1_Witness ==
  /\ pc = "next_event"
  /\ Len(markets) = 3
  /\ Len(fired) = 1
  /\ AllTradable(fired[1].action, fired[1].side)
  /\ Len(results) = 2
  /\ ~Failure(results[1])
  /\ Failure(results[2])
  /\ results[2].status_code = 400
  /\ Len(orders) = 2

(* -------------------------------- C2 ----------------------------------- *)

\* C2: when the response lacks the markets list, check_event submits no
\* order, records one anomaly entry and returns to the polling loop.
C2_BadResponseSkipsEvent ==
  (payload \in {"object_no_markets", "string_no_markets"} /\ pc # "check") =>
    /\ pc = "next_event"
    /\ anomalies = 1
    /\ orders = <<>>

(* -------------------------------- C3 ----------------------------------- *)

\* The no-side block would fire on the balance the account holds now.
NoSideFires ==
  \E action \in Actions :
     /\ TriggerHolds(action, "no", sums, trig)
     /\ orderable(markets, "no", action, min_balance, balance)

\* C3 as stated: whenever a yes-side sweep was entered and the no-side
\* trigger holds with its guard passing, a no-side sweep is entered in the
\* same cycle, whatever became of the yes-side sweep.
C3_BothSidesWhateverOutcome ==
  (Decided /\ CycleOver /\ SideFired("yes") /\ NoSideFires) => SideFired("no")

\* C3 amended: whenever a yes-side sweep has run to its end without a
\* failed leg and the no-side trigger holds with its guard passing on the
\* balance read after that sweep, a no-side sweep is entered in the same cycle.
C3_BothSidesUnlessAborted ==
  (Decided /\ pc \in {"report", "next_event"} /\ ~aborted
     /\ SideFired("yes") /\ NoSideFires)
    => SideFired("no")

\* A buy-yes sweep and a sell-no sweep both submitted orders in one cycle.
C3_Witness ==
  /\ pc = "next_event"
  /\ ~aborted
  /\ Len(fired) = 2
  /\ fired[1].action = "buy" /\ fired[1].side = "yes"
  /\ fired[2].action = "sell" /\ fired[2].side = "no"
  /\ sums.yes_buy = 97
  /\ Len(SweepOrders(1)) = 3
  /\ Len(SweepOrders(2)) = 3

(* -------------------------------- C4 ----------------------------------- *)

\* C4: a sweep that went through all markets without a failed leg has
\* submitted exactly as many orders as the event has markets.
C4_OneOrderPerMarket ==
  \A k \in DOMAIN fired :
     SweepCompleted(k) => Len(SweepOrders(k)) = Len(markets)

(* -------------------------------- C5 ----------------------------------- *)

\* The orders a full sweep is to submit: one per market, in list order.
ExpectedOrders(action, side) ==
  [i \in 1..Len(markets) |->
     [ticker |-> markets[i].ticker, action |-> action, side |-> side,
      price |-> TradedPrice(i, action, side)]]

\* C5: a completed sweep on markets whose traded prices all lie strictly
\* between 1 and 100 has submitted exactly one order per market, in the
\* order of the market list, each with the market's ticker, the sweep's
\* action and side and the market's quoted price; and an order is only
\* ever outstanding while check_event waits for its result, every earlier
\* order having an observed result.
C5_OrdersInListOrder ==
  /\ \A k \in DOMAIN fired :
        (SweepCompleted(k) /\ AllTradable(fired[k].action, fired[k].side)) =>
          SweepOrders(k) = ExpectedOrders(fired[k].action, fired[k].side)
  /\ Len(orders) = Len(results) + (IF pc = "await" THEN 1 ELSE 0)

\* The three-market buy-yes sweep at 32, 33, 32 has completed, and a sell
\* sweep with all prices tradable has completed as well.
C5_Witness ==
  /\ SweepCompleted(1)
  /\ Len(fired) = 2
  /\ SweepCompleted(2)
  /\ fired[1].action = "buy" /\ fired[1].side = "yes"
  /\ fired[2].action = "sell"
  /\ AllTradable("buy", "yes")
  /\ AllTradable("sell", fired[2].side)
  /\ Len(markets) = 3
  /\ SweepOrders(1)[1].price = 32
  /\ SweepOrders(1)[2].price = 33
  /\ SweepOrders(1)[3].price = 32
  /\ Len(SweepOrders(2)) = 3

(* -------------------------------- C6 ----------------------------------- *)

\* C6: in a cycle at most one sweep is entered per side, and no two orders
\* of the cycle on the same side differ in their action.
C6_OneSweepPerSide ==
  /\ \A side \in Sides :
        Cardinality({k \in DOMAIN fired : fired[k].side = side}) <= 1
  /\ \A i, j \in DOMAIN orders :
        orders[i].side = orders[j].side => orders[i].action = orders[j].action

\* A cycle has ended in which, on each side, the buy sweep ran and the
\* sell trigger held with the sell guard passing as well.
C6_Witness ==
  /\ pc = "next_event"
  /\ ~aborted
  /\ SweepFired("buy", "yes") /\ SweepFired("buy", "no")
  /\ TriggerHolds("sell", "yes", sums, trig)
  /\ orderable(markets, "yes", "sell", min_balance, balance)
  /\ TriggerHolds("sell", "no", sums, trig)
  /\ orderable(markets, "no", "sell", min_balance, balance)
  /\ Len(orders) = 2 * Len(markets)
  /\ Len(markets) >= 2

(* -------------------------------- C7 ----------------------------------- *)

\* C7 as stated: a sweep is entered only when its sum deviates from fair
\* value (100 on the yes side, 100*(n-1) on the no side) by the margin.
C7_DeviatesByMargin ==
  LET n == Len(markets) IN
  /\ SweepFired("buy", "yes") => sums.yes_buy <= 100 - margin
  /\ SweepFired("sell", "yes") => sums.yes_sell >= 100 + margin
  /\ SweepFired("buy", "no") => sums.no_buy <= 100 * (n - 1) - margin
  /\ SweepFired("sell", "no") => sums.no_sell >= 100 * (n - 1) + margin

\* C7 amended: a sweep is entered only when its sum deviates from fair
\* value by half the margin: the buy sweeps by the half rounded down, the
\* sell sweeps by the half rounded up, and on the no side by that half
\* times n-1.
C7_DeviatesByHalfMargin ==
  LET n == Len(markets)
      lo == margin \div 2
      hi == margin - (margin \div 2)
  IN
  /\ SweepFired("buy", "yes") => sums.yes_buy <= 100 - lo
  /\ SweepFired("sell", "yes") => sums.yes_sell >= 100 + hi
  /\ SweepFired("buy", "no") => sums.no_buy <= 100 * (n - 1) - lo * (n - 1)
  /\ SweepFired("sell", "no") => sums.no_sell >= 100 * (n - 1) + hi * (n - 1)

\* With a margin of 4 a buy-yes sweep has submitted its three orders on a
\* sum of 97, which is 3 below fair value.
C7_Witness ==
  /\ margin = 4
  /\ SweepFired("buy", "yes")
  /\ sums.yes_buy = 97
  /\ Len(orders) >= 3
  /\ orders[3].action = "buy" /\ orders[3].side = "yes"

(* -------------------------------- C8 ----------------------------------- *)

\* C8: for a margin m in 0..100 and n >= 1 markets, half_floor is m div 2
\* (the largest h with 2h <= m), half_floor + half_ceil = m, the yes
\* triggers are 100 - half_floor and 100 + half_ceil, the no triggers are
\* the yes triggers times n-1; for m = 4 and n = 3 they are 98, 102, 196, 204.
C8_Thresholds ==
  LET n == Len(markets) IN
  (pc = "yes_buy" /\ n >= 1 /\ margin \in 0..100) =>
    /\ 2 * trig.half_floor <= margin /\ margin < 2 * trig.half_floor + 2
    /\ trig.half_floor + trig.half_ceil = margin
    /\ trig.yes_ask = 100 - trig.half_floor
    /\ trig.yes_bid = 100 + trig.half_ceil
    /\ trig.no_ask = trig.yes_ask * (n - 1)
    /\ trig.no_bid = trig.yes_bid * (n - 1)
    /\ (margin = 4 /\ n = 3) =>
          /\ trig.half_floor = 2 /\ trig.half_ceil = 2
          /\ trig.yes_ask = 98 /\ trig.yes_bid = 102
          /\ trig.no_ask = 196 /\ trig.no_bid = 204

\* The thresholds of the example, margin 4 and three markets, are computed.
C8_Witness ==
  /\ pc = "yes_buy"
  /\ margin = 4
  /\ Len(markets) = 3
  /\ trig.no_ask = 196
  /\ trig.no_bid = 204

(* -------------------------------- C9 ----------------------------------- *)

\* Some market of the response is not active.
SomeMarketNotActive == \E i \in DOMAIN markets : markets[i].status # "active"

\* C9: when a market of the event is not active, orderable is False for
\* every side, action, balance and minimum balance (evaluated on each
\* market list as the tests of check_event begin), and the cycle enters
\* no sweep and submits no order.
C9_InactiveMarketNotOrderable ==
  (payload = "markets" /\ SomeMarketNotActive) =>
    /\ pc = "yes_buy" =>
          \A side \in Sides, action \in Actions \cup {"hold"},
             bal \in GuardBalances, minb \in GuardMinBalances :
             ~orderable(markets, side, action, minb, bal)
    /\ fired = <<>>
    /\ orders = <<>>

\* A cycle has ended without a sweep on an event whose buy-yes trigger
\* held, whose balance was sufficient and whose asks were all tradable,
\* but one of whose markets was not active.
C9_Witness ==
  /\ pc = "next_event"
  /\ Decided
  /\ SomeMarketNotActive
  /\ Len(markets) >= 2
  /\ markets[1].status = "active"
  /\ TriggerHolds("buy", "yes", sums, trig)
  /\ AllTradable("buy", "yes")
  /\ balance > 100 + min_balance
  /\ fired = <<>>
  /\ reports = 1

(* -------------------------------- C10 ---------------------------------- *)

\* Some market's traded price is 0 or less, or exactly 100.
DegenerateQuote(action, side) ==
  \E i \in DOMAIN markets :
     TradedPrice(i, action, side) <= 0 \/ TradedPrice(i, action, side) = 100

\* C10: when the traded price of some market (its ask for a buy, its bid
\* for a sell) is 0 or less or exactly 100, orderable is False for every
\* balance and minimum balance (evaluated on each market list as the tests
\* of check_event begin), and the cycle does not enter that sweep.
C10_DegenerateQuoteNotOrderable ==
  \A side \in Sides, action \in Actions :
     (payload = "markets" /\ DegenerateQuote(action, side)) =>
       /\ pc = "yes_buy" =>
             \A bal \in GuardBalances, minb \in GuardMinBalances :
                ~orderable(markets, side, action, minb, bal)
       /\ ~SweepFired(action, side)

\* A cycle has ended on an event of active markets where the sell-yes
\* trigger held with a bid of 0 and the buy-no trigger held with an ask of
\* 100, and neither sweep was entered.
C10_Witness ==
  /\ pc = "next_event"
  /\ Decided
  /\ ~SomeMarketNotActive
  /\ ~TriggerHolds("buy", "yes", sums, trig)
  /\ TriggerHolds("sell", "yes", sums, trig)
  /\ \E i \in DOMAIN markets : markets[i].yes_bid = 0
  /\ TriggerHolds("buy", "no", sums, trig)
  /\ \E i \in DOMAIN markets : markets[i].no_ask = 100
  /\ balance > 100 * (Len(markets) - 1) + min_balance
  /\ ~SweepFired("sell", "yes")
  /\ ~SweepFired("buy", "no")

(* -------------------------------- C11 ---------------------------------- *)

\* The balance a buy of the given side has to exceed on the current event.
BuyFloor(side, minb) ==
  IF side = "yes" THEN 100 + minb ELSE 100 * (Len(markets) - 1) + minb

\* C11: on a non-empty event orderable is False for a buy whenever the
\* balance is at or below the full-set cost plus the minimum balance (100
\* on the yes side, 100*(n-1) on the no side), the floor itself included
\* (evaluated on each market list as the tests of check_event begin); and
\* no buy sweep is entered whose guard read such a balance.
C11_BuyNeedsBalanceAboveFloor ==
  (payload = "markets" /\ Len(markets) >= 1) =>
    /\ pc = "yes_buy" =>
          \A side \in Sides, minb \in GuardMinBalances :
             \A bal \in GuardBalances \cup {BuyFloor(side, minb), BuyFloor(side, minb) - 1} :
                bal <= BuyFloor(side, minb) =>
                  ~orderable(markets, side, "buy", minb, bal)
    /\ \A k \in DOMAIN fired :
          fired[k].action = "buy" =>
            fired[k].balance > BuyFloor(fired[k].side, min_balance)

\* The buy-yes test has failed on active markets with tradable asks and the
\* trigger holding, on a balance exactly equal to 100 + min_balance.
C11_Witness ==
  /\ pc = "yes_sell"
  /\ Len(markets) = 3
  /\ ~SomeMarketNotActive
  /\ AllTradable("buy", "yes")
  /\ TriggerHolds("buy", "yes", sums, trig)
  /\ balance = 100 + min_balance
  /\ fired = <<>>

(* -------------------------------- C12 ---------------------------------- *)

\* C12: in a cycle with a well-formed response in which no sweep is
\* entered, no order is submitted, and "NO BET ATTEMPTED" has been printed
\* exactly once when check_event has returned and not before.
C12_NoSweepReportsOnce ==
  (Decided /\ fired = <<>>) =>
    /\ orders = <<>>
    /\ reports = (IF pc = "next_event" THEN 1 ELSE 0)

\* check_event has returned from an event of active markets without
\* entering a sweep, having reported once.
C12_Witness ==
  /\ pc = "next_event"
  /\ Decided
  /\ Len(markets) >= 2
  /\ ~SomeMarketNotActive
  /\ fired = <<>>
  /\ orders = <<>>
  /\ reports = 1

(* -------------------------------- C13 ---------------------------------- *)

\* The part of C13 about the order of the events: the event being checked
\* changes only when check_event has returned with no result outstanding,
\* and then to the next event of the configured list, the first one after
\* the last.
C13_EventsInListOrder ==
  [][evIdx' # evIdx =>
       /\ pc = "next_event"
       /\ Len(orders) = Len(results)
       /\ evIdx' = (evIdx % Len(all_events)) + 1]_vars

\* C13: a failed leg returns control to the polling loop; the orders of a
\* cycle are all on markets of the event being checked, and none is
\* submitted or outstanding while the market data of an event is being
\* fetched; and the polling loop never stops, so that every configured
\* event is checked again and again.
C13_LoopKeepsPolling ==
  /\ aborted => pc = "next_event"
  /\ \A i \in DOMAIN orders : orders[i].ticker[1] = all_events[evIdx]
  /\ pc \in {"idle", "fetch", "check"} => (orders = <<>> /\ results = <<>>)
  /\ pc # "crashed"

(* -------------------------------- C14 ---------------------------------- *)

\* The arithmetic sum of a field over the markets, taken value by value:
\* each value that occurs times the number of markets that carry it.
RECURSIVE ValueSum(_, _, _, _)
ValueSum(vals, ms, side, ask_or_bid) ==
  IF vals = {} THEN 0
  ELSE LET v == CHOOSE x \in vals : TRUE IN
       v * Cardinality({i \in DOMAIN ms : Quote(ms[i], side, ask_or_bid) = v})
         + ValueSum(vals \ {v}, ms, side, ask_or_bid)

ArithmeticSum(ms, side, ask_or_bid) ==
  ValueSum({Quote(ms[i], side, ask_or_bid) : i \in DOMAIN ms}, ms, side, ask_or_bid)

\* The market list reordered by the permutation p of its indices.
Reordered(ms, p) == [i \in DOMAIN ms |-> ms[p[i]]]

\* C14: for the market list of every cycle, every side and field and every
\* reordering of the list, compute_sum of the reordered list is compute_sum
\* of the list, which is the arithmetic sum of the field over the markets
\* (0 for the empty list) and is what check_event holds as its four sums.
C14_SumIgnoresOrder ==
  (payload = "markets" /\ pc = "yes_buy") =>
    /\ \A side \in Sides, ask_or_bid \in {"ask", "bid"} :
          LET total == compute_sum(markets, side, ask_or_bid) IN
            /\ total = ArithmeticSum(markets, side, ask_or_bid)
            /\ \A p \in Permutations(DOMAIN markets) :
                  compute_sum(Reordered(markets, p), side, ask_or_bid) = total
            /\ markets = <<>> => total = 0
    /\ sums.yes_buy = ArithmeticSum(markets, "yes", "ask")
    /\ sums.yes_sell = ArithmeticSum(markets, "yes", "bid")
    /\ sums.no_buy = ArithmeticSum(markets, "no", "ask")
    /\ sums.no_sell = ArithmeticSum(markets, "no", "bid")

\* The sums of three markets with three different yes asks are computed.
C14_Witness ==
  /\ pc = "yes_buy"
  /\ Len(markets) = 3
  /\ markets[1].yes_ask = 62
  /\ markets[2].yes_ask = 1
  /\ markets[3].yes_ask = 32
  /\ sums.yes_buy = 95

(* -------------------------------- C15 ---------------------------------- *)

\* The number of markets the k-th sweep of this cycle has gone through: all
\* of them once its loop has ended, otherwise those before the market its
\* loop is at, and that market too once its order has been submitted.
MarketsDone(k) ==
  IF k < Len(fired) \/ sweep = NoSweep THEN Len(markets)
  ELSE IF pc = "loop" THEN leg - 1 ELSE leg

\* An order at a price strictly between 1 and 100.
StrictlyInside(o) == 1 < o.price /\ o.price < 100

C16_SellIgnoresBalance ==
  (payload = "markets" /\ pc = "yes_buy") =>
    \A side \in Sides :
       LET answer == orderable(markets, side, "sell", min_balance, balance) IN
         \A bal \in GuardBalances, minb \in GuardMinBalances :
            orderable(markets, side, "sell", minb, bal) = answer

\* A sell sweep was entered, and its first order accepted, with a balance at
\* or below the floor the buy of the same side requires.
C16_Witness ==
  /\ Len(fired) >= 1
  /\ fired[1].action = "sell"
  /\ fired[1].balance <= BuyFloor(fired[1].side, min_balance)
  /\ Len(markets) >= 2
  /\ Len(results) >= 1
  /\ ~Failure(results[1])

(* -------------------------------- C17 ---------------------------------- *)

\* Actions that are neither buy nor sell.
OtherActions == {"hold", "BUY", ""}

\* C17: for every action that is neither buy nor sell the guard answers
\* False, whatever the markets, the side, the balance and the minimum
\* balance.
C17_OtherActionNotOrderable ==
  (payload = "markets" /\ pc = "yes_buy") =>
    \A action \in OtherActions, side \in Sides :
       \A bal \in GuardBalances, minb \in GuardMinBalances :
          ~orderable(markets, side, action, minb, bal)

\* The same, for the responses that list at least one market.
C17_OtherActionNotOrderableNonEmpty ==
  (payload = "markets" /\ pc = "yes_buy" /\ markets # <<>>) =>
    \A action \in OtherActions, side \in Sides :
       \A bal \in GuardBalances, minb \in GuardMinBalances :
          ~orderable(markets, side, action, minb, bal)

(* -------------------------------- C18 ---------------------------------- *)

\* The balance when the k-th sweep of this cycle is over, or the balance
\* now while it is the sweep in progress or the sweep that aborted.
BalanceAfter(k) == IF k < Len(fired) THEN fired[k + 1].balance ELSE balance

\* C18: a buy sweep entered with a balance above the minimum balance leaves
\* the balance strictly above the minimum balance, after each of its
\* orders and when it ends, whether it completes or aborts.
C18_BuySweepKeepsMinBalance ==
  \A k \in DOMAIN fired :
     (fired[k].action = "buy" /\ fired[k].balance > min_balance) =>
        BalanceAfter(k) > min_balance

\* A buy sweep has completed with three accepted orders and has taken the
\* balance down to within ten cents of the minimum balance.
C18_Witness ==
  /\ Len(fired) = 1
  /\ fired[1].action = "buy"
  /\ SweepCompleted(1)
  /\ Len(orders) = 3
  /\ \A i \in DOMAIN results : ~Failure(results[i])
  /\ balance < fired[1].balance
  /\ balance <= min_balance + 10

(* -------------------------------- C19 ---------------------------------- *)

\* Some order of this cycle was accepted.
SomeOrderAccepted == \E i \in DOMAIN results : ~Failure(results[i])

\* check_event reached its last statement: the response was well formed and
\* no sweep aborted.
RanToEnd == pc = "next_event" /\ payload = "markets" /\ ~aborted

\* C19: once check_event has returned, 'no bet attempted' has been reported
\* (once) if and only if the cycle ran to its end without abort and no order
\* was accepted in it; before that point nothing has been reported.
C19_ReportIffNothingAccepted ==
  /\ reports \in {0, 1}
  /\ ~CycleOver => reports = 0
  /\ CycleOver => (reports = 1 <=> (RanToEnd /\ ~SomeOrderAccepted))

\* A cycle over three active markets ran to its end with a sweep entered
\* and all three orders accepted, and ended without a report.
C19_Witness ==
  /\ pc = "next_event"
  /\ RanToEnd
  /\ Len(markets) = 3
  /\ fired # <<>>
  /\ Len(results) = 3
  /\ \A i \in DOMAIN results : ~Failure(results[i])
  /\ bet_attempted
  /\ reports = 0

\* A cycle that aborted on its first order ended without a report.
C19_WitnessAborted ==
  /\ pc = "next_event" /\ aborted /\ ~SomeOrderAccepted /\ reports = 0

\* A cycle over three active markets with no accepted order ran to its end
\* and reported.
C19_WitnessReported ==
  /\ pc = "next_event" /\ RanToEnd /\ ~SomeOrderAccepted
  /\ Len(markets) = 3 /\ ~SomeMarketNotActive /\ reports = 1

====
